---- MODULE Spec2Model ----
(***************************************************************************)
(* A model of ampligraph/datasets/sqlite_adapter.py: the SQLiteAdapter     *)
(* triple store (connection scope, chunked ingestion, batch iteration and  *)
(* complementary-entity queries).                                          *)
(*                                                                         *)
(* A stored row is <<subject, predicate, object, dataset_type>>.  The      *)
(* table is a sequence in rowid (insertion) order.  `committed' is what is *)
(* durable in the file, `pending' the rows written by the open transaction *)
(* of the store's connection; statements of that connection see both.      *)
(***************************************************************************)
EXTENDS Integers, Sequences, FiniteSets, TLC

\* ------------------------------------------------------------- bounds
MaxRows == 3        \* populate is not started on a table that has this many rows
MaxSrcLen == 2      \* longest data source handed to populate
MaxChunk == 2       \* chunk_size is drawn from 1..MaxChunk
MaxIterRows == 4    \* most rows of a table that batch iteration starts from
MaxBatch == 2       \* batch_size is drawn from 1..MaxBatch
MaxQueryRows == 3   \* most rows of a table that complementary entities are asked of
MaxTriples == 2     \* most triples in a batch whose complementary entities are asked
MaxFails == 1       \* most statements of one batch that the backend fails on its own
MaxAppendRows == 2  \* most rows of the table that is filled while it is read

\* ------------------------------------------------------------- vocabulary
\* Raw identifiers are external ids; the indexer maps them to 0, 1, 2, ...
RawTriples == { <<7, 10, 8>>, <<8, 10, 9>> }
Labels == {"train", "test"}
Sources == UNION { [1..n -> RawTriples] : n \in 1..MaxSrcLen }

VARIABLES
    use_indexer,    \* "build" (True), "skip" (False) or "reuse" (a DataIndexer)
    chunk_size,     \* self.chunk_size
    dbFile,         \* the database file exists
    schema,         \* the tables and indexes that exist in the database file
    connection,     \* self.connection: "absent", "open" or "closed"
    committed,      \* rows committed to triples_table
    pending,        \* rows written by the connection's open transaction
    mapper,         \* self.mapper
    exc,            \* an exception is propagating out of the with-block
    last,           \* what the last call did (observation only)
    batches_count,  \* self.batches_count, -1 while the attribute is not set
    it,             \* the generator _get_batch returned: its arguments and frame
    yielded,        \* what the generator has yielded (observation only)
    entities,       \* the last answer of _get_complementary_entities and its batch
    orphan          \* a handle the store opened and dropped unclosed is still open

storeVars == <<use_indexer, chunk_size, dbFile, schema, connection,
               committed, pending, mapper, exc, last>>
iterVars == <<batches_count, it, yielded>>
queryVars == <<entities>>
handleVars == <<orphan>>

\* ------------------------------------------------------------- helpers
Range(s) == { s[k] : k \in DOMAIN s }

\* What a statement run on the store's connection sees.
View == committed \o pending

\* ------------------------------------------------------------- value conversions
RECURSIVE DecStr(_)
\* str(n) as numpy writes it when an integer array is appended to a text one
DecStr(n) == IF n < 10 THEN <<n>> ELSE Append(DecStr(n \div 10), n % 10)

RECURSIVE ParseDec(_)
ParseDec(d) ==
    IF Len(d) = 0 THEN 0 ELSE ParseDec(SubSeq(d, 1, Len(d) - 1)) * 10 + d[Len(d)]

\* The integer columns of triples_table turn a text of digits into an integer.
ColumnAffinity(values) ==
    <<ParseDec(values[1]), ParseDec(values[2]), ParseDec(values[3]), values[4]>>

\* ------------------------------------------------------------- the indexer
NoMapper == [has |-> FALSE, ent |-> << >>, rel |-> << >>]

\* The DataIndexer a caller hands to the constructor (reuse mode).
SuppliedMapper == [has |-> TRUE, ent |-> <<9, 8, 7>>, rel |-> <<10>>]

RECURSIVE Distinct(_)
\* s without repetitions, in order of first appearance
Distinct(s) ==
    IF Len(s) = 0 THEN << >>
    ELSE LET d == Distinct(SubSeq(s, 1, Len(s) - 1))
         IN  IF s[Len(s)] \in Range(d) THEN d ELSE Append(d, s[Len(s)])

RECURSIVE Flatten(_)
Flatten(ss) == IF Len(ss) = 0 THEN << >> ELSE ss[1] \o Flatten(Tail(ss))

\* DataIndexer(data): one pass over every chunk of the source
DataIndexer(chunks) ==
    LET all == Flatten(chunks)
        ents == Flatten([k \in 1..Len(all) |-> <<all[k][1], all[k][3]>>])
        rels == [k \in 1..Len(all) |-> all[k][2]]
    IN  [has |-> TRUE, ent |-> Distinct(ents), rel |-> Distinct(rels)]

IndexOf(s, x) == (CHOOSE k \in DOMAIN s : s[k] = x) - 1

Known(m, t) == t[1] \in Range(m.ent) /\ t[2] \in Range(m.rel) /\ t[3] \in Range(m.ent)

\* mapper.get_indexes(chunk): raw ids to dense indices
get_indexes(m, chunk) ==
    [k \in 1..Len(chunk) |->
        <<IndexOf(m.ent, chunk[k][1]), IndexOf(m.rel, chunk[k][2]), IndexOf(m.ent, chunk[k][3])>>]

\* the indexer's inverse mapping of one stored row
Decode(m, row) == <<m.ent[row[1] + 1], m.rel[row[2] + 1], m.ent[row[3] + 1]>>

\* ------------------------------------------------------------- the loader
RECURSIVE loader(_, _)
\* self.loader(data_source, chunk_size): groups of chunk_size rows, the last one shorter
loader(src, size) ==
    IF Len(src) = 0 THEN << >>
    ELSE IF Len(src) <= size THEN <<src>>
         ELSE <<SubSeq(src, 1, size)>> \o loader(SubSeq(src, size + 1, Len(src)), size)

\* the number of chunks the loader cuts src into
NChunks(src, size) == (Len(src) + size - 1) \div size

\* ------------------------------------------------------------- transactions
\* A database as the store's connection holds it.
Db == [committed |-> committed, pending |-> pending]

\* commit that keeps the rows of its own transaction only
commit_overwrite(db) == [committed |-> db.pending, pending |-> << >>]

\* connection.commit()
Commit(db) == [committed |-> db.committed \o db.pending, pending |-> << >>]

\* connection.rollback()
Rollback(db) == [committed |-> db.committed, pending |-> << >>]

\* cursor.executemany(INSERT ...) that stops after `n' rows: the rows join the
\* connection's open transaction
ExecuteMany(db, values, n) ==
    [committed |-> db.committed,
     pending |-> db.pending \o [k \in 1..n |-> ColumnAffinity(values[k])]]

\* How one executemany call ends: it writes every row ("ok"), or stops after `at'
\* rows with a sqlite3.Error ("Error") or with an exception that is no
\* sqlite3.Error, such as the OverflowError of an integer beyond 64 bits ("other").
\* Rows that have not the table's four columns fail the statement itself, with
\* a sqlite3.OperationalError, before any row is written.
Outcomes(values) ==
    IF \E k \in DOMAIN values : Len(values[k]) # 4
    THEN {[kind |-> "Error", at |-> 0]}
    ELSE {[kind |-> "ok", at |-> Len(values)]}
         \cup {[kind |-> k, at |-> n] : k \in {"Error", "other"}, n \in 0..(Len(values) - 1)}
         \cup {[kind |-> "Error", at |-> Len(values)]}

\* insert_values whose except branch forgets connection.rollback()
insert_values_no_rollback(db, values, out) ==
    LET written == ExecuteMany(db, values, out.at)
    IN  IF out.kind = "ok" THEN Commit(written) ELSE written

\* insert_values that leaves the commit of a chunk to a later call
insert_values_no_commit(db, values, out) ==
    LET written == ExecuteMany(db, values, out.at)
    IN  IF out.kind = "Error" THEN Rollback(written) ELSE written

\* _insert_values_to_a_table(table, values): the database afterwards
insert_values(db, values, out) ==
    LET written == ExecuteMany(db, values, out.at)
    IN  IF out.kind = "ok" THEN Commit(written)
        ELSE IF out.kind = "Error" THEN Rollback(written)
        ELSE written

\* ------------------------------------------------------------- ingestion
\* get_indexed_triples(chunk, dataset_type): the chunk, indexed unless the store
\* skips indexing, with the label as a fourth column; numpy makes every cell text
get_indexed_triples(m, mode, chunk, label) ==
    LET triples == IF mode # "skip" THEN get_indexes(m, chunk) ELSE chunk
    IN  [k \in 1..Len(chunk) |->
            <<DecStr(triples[k][1]), DecStr(triples[k][2]), DecStr(triples[k][3]), label>>]

RECURSIVE populate_loop(_, _, _, _, _, _)
\* for chunk in self.data: translate and insert.  outs[j] is how the j-th insert
\* ends.  The loop stops at a chunk the indexer cannot translate.
populate_loop(db, m, mode, chunks, label, outs) ==
    IF Len(chunks) = 0 THEN [db |-> db, raised |-> FALSE]
    ELSE IF mode # "skip" /\ \E k \in 1..Len(chunks[1]) : ~Known(m, chunks[1][k])
         THEN [db |-> db, raised |-> TRUE]
         ELSE populate_loop(
                  insert_values(db, get_indexed_triples(m, mode, chunks[1], label), outs[1]),
                  m, mode, Tail(chunks), label, Tail(outs))

\* index_entities whose indexer reads the first chunk only
index_entities_first_chunk(mode, chunks) ==
    IF mode = "build" THEN DataIndexer(SubSeq(chunks, 1, 1))
    ELSE IF mode = "reuse" THEN SuppliedMapper
    ELSE NoMapper

\* index_entities(): the mapper after it
index_entities(mode, chunks) ==
    IF mode = "build" THEN DataIndexer(chunks)
    ELSE IF mode = "reuse" THEN SuppliedMapper
    ELSE NoMapper

Min(a, b) == IF a < b THEN a ELSE b

\* How the inserts of a populate call end: the inserts of the chunks in `errs' stop
\* with a sqlite3.Error after (at most) `at' rows, the others write every row.
PopulateOutcomes(chunks, errs, at) ==
    [j \in 1..Len(chunks) |->
        IF j \in errs THEN [kind |-> "Error", at |-> Min(at, Len(chunks[j]))]
        ELSE [kind |-> "ok", at |-> Len(chunks[j])]]

\* `last' records the call that led to the state: its name, how it ended, and
\* two facts about it (n, flag) that the state itself no longer shows.
NoCall == [op |-> "none", kind |-> "ok", n |-> 0, flag |-> FALSE]

\* populate that does not call reload_data() again after indexing, so that the
\* insertion pass runs on the chunk producer the indexer has used up
populate_no_reload(db, m0, mode, size, src, label, outs, indexFails) ==
    LET chunks == loader(src, size)
        build == ~m0.has /\ mode # "skip"
    IN  IF build /\ indexFails
        THEN [db |-> db, mapper |-> m0, raised |-> TRUE, built |-> FALSE]
        ELSE LET m == IF build THEN index_entities(mode, chunks) ELSE m0
                 r == populate_loop(db, m, mode, IF build THEN << >> ELSE chunks, label, outs)
             IN  [db |-> r.db, mapper |-> m, raised |-> r.raised, built |-> build]

\* populate that inserts the raw chunks before it indexes, so that a failure of
\* the indexer comes after the rows
populate_index_late(db, m0, mode, size, src, label, outs, indexFails) ==
    LET chunks == loader(src, size)
        build == ~m0.has /\ mode # "skip"
    IN  IF build /\ indexFails
        THEN [db |-> populate_loop(db, m0, "skip", chunks, label, outs).db,
              mapper |-> m0, raised |-> TRUE, built |-> FALSE]
        ELSE LET m == IF build THEN index_entities(mode, chunks) ELSE m0
                 r == populate_loop(db, m, mode, chunks, label, outs)
             IN  [db |-> r.db, mapper |-> m, raised |-> r.raised, built |-> build]

\* populate that indexes at every call of a store that indexes
populate_reindex(db, m0, mode, size, src, label, outs, indexFails) ==
    LET chunks == loader(src, size)
        build == mode # "skip"
    IN  IF build /\ indexFails
        THEN [db |-> db, mapper |-> m0, raised |-> TRUE, built |-> FALSE]
        ELSE LET m == IF build THEN index_entities(mode, chunks) ELSE m0
                 r == populate_loop(db, m, mode, chunks, label, outs)
             IN  [db |-> r.db, mapper |-> m, raised |-> r.raised, built |-> build]

\* populate(data_source, dataset_type): indexing fails, or the store is indexed if
\* it must be and the chunks are inserted one by one
populate(db, m0, mode, size, src, label, outs, indexFails) ==
    LET chunks == loader(src, size)
        build == ~m0.has /\ mode # "skip"
    IN  IF build /\ indexFails
        THEN [db |-> db, mapper |-> m0, raised |-> TRUE, built |-> FALSE]
        ELSE LET m == IF build THEN index_entities(mode, chunks) ELSE m0
                 r == populate_loop(db, m, mode, chunks, label, outs)
             IN  [db |-> r.db, mapper |-> m, raised |-> r.raised, built |-> build]

Populate(src, label, errs, at, indexFails) ==
    /\ connection = "open" /\ ~exc
    /\ Len(View) + Len(src) <= MaxRows
    /\ errs \subseteq 1..NChunks(src, chunk_size)
    /\ indexFails => (~mapper.has /\ use_indexer # "skip")
    /\ \E r \in {populate(Db, mapper, use_indexer, chunk_size, src, label,
                          PopulateOutcomes(loader(src, chunk_size), errs, at), indexFails)} :
          /\ mapper' = r.mapper
          /\ committed' = r.db.committed
          /\ pending' = r.db.pending
          /\ exc' = r.raised
          /\ last' = [op |-> "populate",
                      kind |-> IF indexFails THEN "index" ELSE IF r.raised THEN "other"
                               ELSE IF errs # {} THEN "Error" ELSE "ok",
                      n |-> NChunks(src, chunk_size), flag |-> r.built]
    /\ UNCHANGED <<use_indexer, chunk_size, dbFile, schema, connection>>
    /\ UNCHANGED <<iterVars, queryVars, orphan>>

\* the rows a caller may hand to _insert_values_to_a_table directly
DirectRows == { <<DecStr(0), DecStr(0), DecStr(1), "train">>,
                <<DecStr(12), DecStr(0), DecStr(0), "test">> }
\* rows of three cells, one fewer than the table has columns
ShortRows == { <<DecStr(0), DecStr(0), DecStr(1)>> }
DirectValues == UNION { [1..n -> DirectRows] \cup [1..n -> ShortRows] : n \in 1..MaxChunk }

\* _insert_values_to_a_table("triples_table", values) called on its own
InsertValues(values, out) ==
    LET db == insert_values(Db, values, out)
    IN  /\ connection = "open" /\ ~exc
        /\ Len(View) + Len(values) <= MaxRows
        /\ out \in Outcomes(values)
        /\ committed' = db.committed
        /\ pending' = db.pending
        /\ exc' = (out.kind = "other")
        /\ last' = [op |-> "insert", kind |-> out.kind, n |-> out.at,
                    flag |-> pending # << >>]
        /\ UNCHANGED <<use_indexer, chunk_size, dbFile, schema, connection, mapper>>
        /\ UNCHANGED <<iterVars, queryVars, orphan>>

\* ------------------------------------------------------------- statements
Table == "triples_table"
Indexes == { "triples_table_sp_idx", "triples_table_po_idx", "triples_table_type_idx",
            "triples_table_sub_obj_idx", "triples_table_subject_idx",
            "triples_table_object_idx" }
SchemaObjects == {Table} \cup Indexes

\* _get_db_schema(): the statements that create the table and its six indexes
get_db_schema ==
    << [verb |-> "create table", name |-> Table],
       [verb |-> "create index", name |-> "triples_table_sp_idx"],
       [verb |-> "create index", name |-> "triples_table_po_idx"],
       [verb |-> "create index", name |-> "triples_table_type_idx"],
       [verb |-> "create index", name |-> "triples_table_sub_obj_idx"],
       [verb |-> "create index", name |-> "triples_table_subject_idx"],
       [verb |-> "create index", name |-> "triples_table_object_idx"] >>

\* _get_clean_up(): drop three of the indexes, then the table
get_clean_up ==
    << [verb |-> "drop index", name |-> "triples_table_po_idx"],
       [verb |-> "drop index", name |-> "triples_table_sp_idx"],
       [verb |-> "drop index", name |-> "triples_table_type_idx"],
       [verb |-> "drop table", name |-> Table] >>

\* statements whose drops lack IF EXISTS: dropping what is missing is an error
StatementErrorStrict(objs, stmt) ==
    IF stmt.verb = "create table" THEN stmt.name \in objs
    ELSE IF stmt.verb = "create index" THEN Table \notin objs \/ stmt.name \in objs
    ELSE IF stmt.verb = "select" THEN stmt.name \notin objs \/ stmt.malformed
    ELSE stmt.name \notin objs

\* The statement itself is in error: the object it creates exists, the table it
\* indexes or reads is missing, or its text is malformed.  A drop ... IF EXISTS is
\* never in error.
StatementError(objs, stmt) ==
    IF stmt.verb = "create table" THEN stmt.name \in objs
    ELSE IF stmt.verb = "create index" THEN Table \notin objs \/ stmt.name \in objs
    ELSE IF stmt.verb = "select" THEN stmt.name \notin objs \/ stmt.malformed
    ELSE FALSE

\* The objects of the file after the statement has run; dropping the table
\* drops its indexes.
StatementEffect(objs, stmt) ==
    IF stmt.verb \in {"create table", "create index"} THEN objs \cup {stmt.name}
    ELSE IF stmt.verb = "drop index" THEN objs \ {stmt.name}
    ELSE IF stmt.verb = "drop table" THEN {}
    ELSE objs

\* _execute_query(query): the statement fails when it is in error or when the
\* backend fails it (a locked or unwritable file); the except clause prints the
\* sqlite3.Error and the call returns None, otherwise it returns what fetchall()
\* gave.  `raised' is whether an exception leaves the call.
execute_query(objs, stmt, backendFails) ==
    IF backendFails \/ StatementError(objs, stmt)
    THEN [schema |-> objs, failed |-> TRUE, output |-> "None", raised |-> FALSE]
    ELSE [schema |-> StatementEffect(objs, stmt), failed |-> FALSE, output |-> "list",
          raised |-> FALSE]

RECURSIVE execute_queries_from(_, _, _, _)
\* the for loop of _execute_queries from statement k on: the objects afterwards,
\* the statements that failed and the statements that were attempted
execute_queries_from(objs, list_of_queries, fails, k) ==
    IF k > Len(list_of_queries)
    THEN [schema |-> objs, failed |-> {}, attempted |-> {}, raised |-> FALSE]
    ELSE LET q == execute_query(objs, list_of_queries[k], k \in fails)
             rest == execute_queries_from(q.schema, list_of_queries, fails, k + 1)
         IN  [schema |-> rest.schema,
              failed |-> (IF q.failed THEN {k} ELSE {}) \cup rest.failed,
              attempted |-> {k} \cup rest.attempted,
              raised |-> rest.raised]

\* _execute_queries(list_of_queries); `fails' are the statements the backend fails
execute_queries(objs, list_of_queries, fails) ==
    execute_queries_from(objs, list_of_queries, fails, 1)

\* _create_database()
create_database(objs, fails) == execute_queries(objs, get_db_schema, fails)

\* The sets of statements of a batch that the backend may fail.
BackendFails(list_of_queries) ==
    { f \in SUBSET DOMAIN list_of_queries : Cardinality(f) <= MaxFails }

\* Of a batch that has run: the statements attempted after the first one that failed.
AttemptedAfterFailure(r) ==
    { k \in r.attempted : \E f \in r.failed : f < k }

\* ------------------------------------------------------------- the session scope
\* __enter__ that creates the schema whether the file exists or not
enter_scope_create(fileExists, objs, fails) == create_database(objs, fails)

\* The statements of __enter__: none when connecting in mode rw succeeds, the
\* schema when it raises OperationalError because the file is missing.
enter_scope(fileExists, objs, fails) ==
    IF fileExists THEN execute_queries(objs, << >>, {})
    ELSE create_database(objs, fails)

\* __enter__: connect to the file, or create it and its schema when it is missing.
\* The new handle replaces the one self.connection held, whose open transaction
\* the new handle does not see.
\* `fails' are the statements of the schema that the backend fails.
\* The assignment of lines 76 and 80 drops the old handle without closing it:
\* `finalized' tells whether the runtime closes a dropped handle at once (reference
\* counting) or leaves it to a later collection.
Open(fails, finalized) ==
    /\ ~exc
    /\ fails # {} => ~dbFile
    /\ connection' = "open"
    /\ dbFile' = TRUE
    /\ \E r \in {enter_scope(dbFile, schema, fails)} :
          /\ schema' = r.schema
          /\ exc' = r.raised
          /\ last' = [op |-> "enter", kind |-> IF r.failed # {} THEN "Error" ELSE "ok",
                      n |-> Cardinality(AttemptedAfterFailure(r)),
                      flag |-> pending # << >>]
    /\ pending' = << >>
    /\ orphan' = (orphan \/ (connection = "open" /\ ~finalized))
    /\ UNCHANGED <<use_indexer, chunk_size, committed, mapper>>
    /\ UNCHANGED <<iterVars, queryVars>>

\* __enter__ on a backend that fails no statement, under a runtime that counts
\* references
Enter == Open({}, TRUE)

\* __enter__ under any runtime
EnterAnyRuntime == \E finalized \in BOOLEAN : Open({}, finalized)

\* The runtime collects the handles the store has dropped: sqlite3 closes a
\* connection when the object is deallocated.
Finalize ==
    /\ orphan
    /\ orphan' = FALSE
    /\ UNCHANGED <<storeVars, iterVars, queryVars>>

\* __exit__ that commits whatever the traceback is
exit_scope_commit(db, tb) ==
    IF ~tb THEN [db |-> Commit(db), connection |-> "closed"]
    ELSE [db |-> Commit(db), connection |-> "open"]

\* __exit__(type, value, tb) on an open connection: the database and the handle
exit_scope(db, tb) ==
    IF ~tb THEN [db |-> Commit(db), connection |-> "closed"]
    ELSE [db |-> Rollback(db), connection |-> "open"]

\* Leaving the with-block, normally or with the exception that is propagating.
\* On a handle that is already closed commit() raises and nothing changes.
Exit ==
    /\ connection # "absent"
    /\ \/ /\ connection = "open"
          /\ LET r == exit_scope(Db, exc)
             IN  /\ committed' = r.db.committed
                 /\ pending' = r.db.pending
                 /\ connection' = r.connection
          /\ last' = [op |-> "exit", kind |-> IF exc THEN "error" ELSE "ok", n |-> 0,
                      flag |-> pending # << >>]
       \/ /\ connection = "closed"
          /\ last' = [op |-> "exit", kind |-> "raised", n |-> 0, flag |-> pending # << >>]
          /\ UNCHANGED <<committed, pending, connection>>
    /\ exc' = FALSE
    /\ UNCHANGED <<use_indexer, chunk_size, dbFile, schema, mapper>>
    /\ UNCHANGED <<iterVars, queryVars, orphan>>

\* The code of the with-block handles the exception itself and goes on.
Catch ==
    /\ exc
    /\ exc' = FALSE
    /\ last' = [op |-> "catch", kind |-> "ok", n |-> 0, flag |-> pending # << >>]
    /\ UNCHANGED <<use_indexer, chunk_size, dbFile, schema, connection,
                   committed, pending, mapper>>
    /\ UNCHANGED <<iterVars, queryVars, orphan>>

\* ------------------------------------------------------------- queries
RECURSIVE Numbered(_, _)
\* the rows of a table with their rowids
Numbered(rows, k) ==
    IF k > Len(rows) THEN << >>
    ELSE <<[id |-> k, row |-> rows[k]]>> \o Numbered(rows, k + 1)

\* a statement without the condition on dataset_type
SelectAnyType(rows, label) == rows

RECURSIVE SelectType(_, _)
\* ... from triples_table where dataset_type = label, in rowid order
SelectType(rows, label) ==
    IF Len(rows) = 0 THEN << >>
    ELSE IF rows[1].row[4] = label THEN <<rows[1]>> \o SelectType(Tail(rows), label)
         ELSE SelectType(Tail(rows), label)

\* get_data_size(condition="where dataset_type = label")
get_data_size(rows, label) == Len(SelectType(Numbered(rows, 1), label))

\* a batch count that rounds up
BatchesCountCeil(size, batch_size) == (size + batch_size - 1) \div batch_size

\* int(size / batch_size)
BatchesCount(size, batch_size) == size \div batch_size

\* the ORDER BY clause that index_by selects: "" for none
OrderBy(index_by) ==
    IF index_by = "s" THEN "subject"
    ELSE IF index_by = "o" THEN "object"
    ELSE IF index_by = "so" \/ index_by = "os" THEN "subject, object"
    ELSE ""

\* row a may come before row b under the clause
Before(clause, a, b) ==
    IF clause = "subject" THEN a.row[1] <= b.row[1]
    ELSE IF clause = "object" THEN a.row[3] <= b.row[3]
    ELSE IF clause = "subject, object"
         THEN a.row[1] < b.row[1] \/ (a.row[1] = b.row[1] /\ a.row[3] <= b.row[3])
    ELSE a.id <= b.id

\* the sequences of n distinct elements of the sequence part
Arrangements(part, n) ==
    { [k \in 1..n |-> part[f[k]]] :
        f \in { g \in [1..n -> DOMAIN part] : \A i, j \in 1..n : i # j => g[i] # g[j] } }

Max(a, b) == IF a > b THEN a ELSE b

\* LIMIT off, lim over `part' in the order of `clause': every result the clause
\* allows (rows that compare equal may come in any order).  Without a clause
\* the rows come in rowid order.
LimitPages(part, clause, off, lim) ==
    LET n == Max(0, Min(lim, Len(part) - off))
    IN  IF clause = "" THEN { SubSeq(part, off + 1, off + n) }
        ELSE { p \in Arrangements(part, n) :
                 /\ \A i, j \in 1..n : i < j => Before(clause, p[i], p[j])
                 /\ \E before \in SUBSET (Range(part) \ Range(p)) :
                       /\ Cardinality(before) = Min(off, Len(part))
                       /\ \A b \in before : \A k \in 1..n : Before(clause, b, p[k])
                       /\ \A a \in (Range(part) \ Range(p)) \ before :
                             \A k \in 1..n : Before(clause, p[k], a) }

\* order by random() limit off, lim: any rows in any order
RandomPages(part, off, lim) ==
    Arrangements(part, Max(0, Min(lim, Len(part) - off)))

\* ------------------------------------------------------------- batch iteration
\* The local variable `query' of _get_batch: the text with its four replacement
\* fields, or a text in which format() has filled them in.
QueryTemplate == [filled |-> FALSE, off |-> 0, lim |-> 0]

\* query.format(dataset_type, index, off, lim): a text without replacement
\* fields is returned as it is
Format(query, off, lim) ==
    IF query.filled THEN query ELSE [filled |-> TRUE, off |-> off, lim |-> lim]

\* n0 is an observation: the rows of the partition at the first next().
NoIter == [state |-> "none", label |-> "train", batch_size |-> 1, random |-> FALSE,
           index_by |-> "", use_filter |-> FALSE, i |-> 0, count |-> 0,
           query |-> QueryTemplate, first |-> FALSE, n0 |-> 0]

\* What the generator has yielded: the number of pages, the last page, whether
\* some page shared a row with the page before it, and whether the subjects of
\* all the rows yielded, in the order yielded, never decreased.
NoneYielded == [n |-> 0, page |-> << >>, repeats |-> FALSE, ascending |-> TRUE]

Ascending(page) == \A i, j \in DOMAIN page : i < j => page[i].row[1] <= page[j].row[1]

Yield(y, page) ==
    [n |-> y.n + 1, page |-> page,
     repeats |-> y.repeats \/ \E a \in Range(y.page), b \in Range(page) : a.id = b.id,
     ascending |-> /\ y.ascending
                   /\ Ascending(page)
                   /\ (y.page # << >> /\ page # << >>) =>
                         y.page[Len(y.page)].row[1] <= page[1].row[1]]

\* The arguments the model gives _get_batch besides the label and the batch
\* size: plain, ordered and random iteration, iteration with use_filter, and
\* the two kinds of argument the assertion is there to reject.
IterArgs ==
    { [random |-> FALSE, index_by |-> "", use_filter |-> FALSE],
      [random |-> FALSE, index_by |-> "s", use_filter |-> FALSE],
      [random |-> FALSE, index_by |-> "os", use_filter |-> FALSE],
      [random |-> TRUE, index_by |-> "", use_filter |-> FALSE],
      [random |-> FALSE, index_by |-> "", use_filter |-> TRUE],
      [random |-> TRUE, index_by |-> "o", use_filter |-> FALSE],
      [random |-> FALSE, index_by |-> "x", use_filter |-> FALSE] }

\* _get_batch(batch_size, dataset_type, random, use_filter, index_by): the call
\* returns a generator and runs none of the body.
NewIter(label, batch_size, random, index_by, use_filter) ==
    /\ ~exc
    /\ it.state \in {"none", "done", "dead"}
    /\ it' = [NoIter EXCEPT !.state = "new", !.label = label, !.batch_size = batch_size,
                            !.random = random, !.index_by = index_by,
                            !.use_filter = use_filter]
    /\ yielded' = NoneYielded
    /\ last' = [op |-> "iter", kind |-> "ok", n |-> 0, flag |-> FALSE]
    /\ UNCHANGED <<use_indexer, chunk_size, dbFile, schema, connection,
                   committed, pending, mapper, exc, batches_count, entities, orphan>>

\* The replacement fields of the assertion's message: the braces of the set it
\* quotes open a field named after the text between them, the last pair is an
\* automatically numbered field.
MsgFields == << "s,o,so,os,''\\", "" >>

\* str.format with `nargs' positional and no keyword arguments raises when the
\* text has a named field (KeyError) or more numbered fields than arguments
\* (IndexError)
FormatRaises(fields, nargs) ==
    \/ \E k \in DOMAIN fields : fields[k] # ""
    \/ Len(fields) > nargs

\* a check of index_by that lets every value pass
CheckOrderAny(index_by, random) == "ok"

\* The check of index_by: the message is formatted before the assertion is
\* evaluated.
CheckOrder(index_by, random) ==
    IF index_by = "" THEN "ok"
    ELSE IF FormatRaises(MsgFields, 1) THEN "KeyError"
    ELSE IF index_by \in {"s", "o", "so", "os"} /\ ~random THEN "ok"
    ELSE "AssertionError"

\* the body of the for loop up to its yield: the generator's frame afterwards and
\* the pages the statement may return; with use_filter the call of
\* self.get_complementary_entities, an attribute the class does not have, raises
LoopBody(g, rows) ==
    LET q == Format(g.query, g.i * g.batch_size, g.batch_size)
        part == SelectType(Numbered(rows, 1), g.label)
    IN  [frame |-> [g EXCEPT !.query = q, !.i = g.i + 1, !.state = "running"],
         pages |-> IF g.random THEN RandomPages(part, g.i * g.batch_size, g.batch_size)
                   ELSE LimitPages(part, OrderBy(g.index_by), q.off, q.lim),
         raises |-> g.use_filter]

\* next() on the generator: the first call computes the batch count if the store
\* has none and checks the arguments; every call runs the loop to its next
\* yield, or ends the generator when the loop is over.
NextPage ==
    /\ connection = "open" /\ ~exc /\ schema = SchemaObjects
    /\ it.state \in {"new", "running"}
    /\ LET starts == it.state = "new"
           size == get_data_size(View, it.label)
           bc == IF starts /\ batches_count = -1
                 THEN BatchesCount(size, it.batch_size) ELSE batches_count
           g == IF starts
                THEN [it EXCEPT !.count = bc, !.first = (batches_count = -1), !.n0 = size]
                ELSE it
           \* _execute_query commits after every statement it runs
           queried == \/ starts /\ batches_count = -1
                      \/ (~starts \/ CheckOrder(it.index_by, it.random) = "ok")
                            /\ g.i < g.count
       IN  /\ batches_count' = bc
           /\ committed' = IF queried THEN Commit(Db).committed ELSE committed
           /\ pending' = IF queried THEN Commit(Db).pending ELSE pending
           /\ IF starts /\ CheckOrder(it.index_by, it.random) # "ok"
              THEN /\ it' = [g EXCEPT !.state = "dead"]
                   /\ exc' = TRUE
                   /\ UNCHANGED yielded
              ELSE IF g.i >= g.count
              THEN /\ it' = [g EXCEPT !.state = "done"]
                   /\ UNCHANGED <<exc, yielded>>
              ELSE \E body \in {LoopBody(g, View)} :
                     IF body.raises
                     THEN /\ it' = [body.frame EXCEPT !.state = "dead"]
                          /\ exc' = TRUE
                          /\ UNCHANGED yielded
                     ELSE /\ it' = body.frame
                          /\ \E page \in body.pages :
                                yielded' = Yield(yielded, page)
                          /\ UNCHANGED exc
    /\ last' = [op |-> "next", kind |-> IF exc' THEN "other" ELSE "ok", n |-> 0,
                flag |-> FALSE]
    /\ UNCHANGED <<use_indexer, chunk_size, dbFile, schema, connection,
                   mapper, entities, orphan>>

\* ------------------------------------------------------------- complementary entities
\* select distinct object from triples_table
\*   where subject in (the batch's subjects) and predicate in (the batch's predicates)
get_complementary_objects(rows, triples) ==
    { r[3] : r \in { x \in Range(rows) :
                        /\ x[1] \in { t[1] : t \in Range(triples) }
                        /\ x[2] \in { t[2] : t \in Range(triples) } } }

\* select distinct subject from triples_table
\*   where predicate in (the batch's predicates) and object in (the batch's objects)
get_complementary_subjects(rows, triples) ==
    { r[1] : r \in { x \in Range(rows) :
                        /\ x[2] \in { t[2] : t \in Range(triples) }
                        /\ x[3] \in { t[3] : t \in Range(triples) } } }

NoEntities == [triples |-> << >>, subjects |-> {}, objects |-> {}]

\* _get_complementary_entities(triples)
GetComplementaryEntities(triples) ==
    /\ connection = "open" /\ ~exc /\ schema = SchemaObjects
    /\ entities' = [triples |-> triples,
                    subjects |-> get_complementary_subjects(View, triples),
                    objects |-> get_complementary_objects(View, triples)]
    /\ committed' = Commit(Db).committed
    /\ pending' = Commit(Db).pending
    /\ last' = [op |-> "entities", kind |-> "ok", n |-> Len(triples), flag |-> FALSE]
    /\ UNCHANGED <<use_indexer, chunk_size, dbFile, schema, connection,
                   mapper, exc, iterVars, orphan>>

\* ------------------------------------------------------------- direct statements
\* The select statements a caller runs: on the triple table or on a table that
\* does not exist, well formed or not.
Selects == { [verb |-> "select", name |-> t, malformed |-> m] :
                t \in {Table, "no_table"}, m \in BOOLEAN }

\* _execute_query(query) called on its own.  A statement that ran is committed
\* with whatever the connection had outstanding; one that failed is not.
ExecuteQuery(stmt, backendFails) ==
    /\ connection = "open" /\ ~exc
    /\ \E r \in {execute_query(schema, stmt, backendFails)} :
          /\ schema' = r.schema
          /\ committed' = IF r.failed THEN committed ELSE Commit(Db).committed
          /\ pending' = IF r.failed THEN pending ELSE Commit(Db).pending
          /\ exc' = r.raised
          /\ last' = [op |-> "query", kind |-> IF r.failed THEN "Error" ELSE "ok",
                      n |-> 0, flag |-> r.output = "None"]
    /\ UNCHANGED <<use_indexer, chunk_size, dbFile, connection, mapper>>
    /\ UNCHANGED <<iterVars, queryVars, orphan>>

\* The conditions handed to get_data_size: none, a partition, or a text that is
\* no SQL.
Conditions == { [malformed |-> FALSE, label |-> ""], [malformed |-> FALSE, label |-> "train"],
               [malformed |-> FALSE, label |-> "test"], [malformed |-> TRUE, label |-> ""] }

\* get_data_size(table, condition): "ok" with the count, "None" when
\* _execute_query returned None, "ValueError" when what it returned is no list
\* of tuples.
data_size(objs, rows, table, condition, backendFails) ==
    LET count == execute_query(objs, [verb |-> "select", name |-> table,
                                      malformed |-> condition.malformed], backendFails)
    IN  IF count.output = "None" THEN [kind |-> "None", n |-> 0, failed |-> count.failed]
        ELSE IF count.output # "list" THEN [kind |-> "ValueError", n |-> 0, failed |-> count.failed]
        ELSE [kind |-> "ok",
              n |-> IF condition.label = "" THEN Len(rows)
                    ELSE get_data_size(rows, condition.label),
              failed |-> count.failed]

GetDataSize(table, condition, backendFails) ==
    /\ connection = "open" /\ ~exc
    /\ \E r \in {data_size(schema, View, table, condition, backendFails)} :
          /\ committed' = IF r.failed THEN committed ELSE Commit(Db).committed
          /\ pending' = IF r.failed THEN pending ELSE Commit(Db).pending
          /\ exc' = (r.kind = "ValueError")
          /\ last' = [op |-> "size", kind |-> r.kind, n |-> r.n,
                      flag |-> condition.malformed]
    /\ UNCHANGED <<use_indexer, chunk_size, dbFile, schema, connection, mapper>>
    /\ UNCHANGED <<iterVars, queryVars, orphan>>

\* clean_up(): the rows go with the table when the drop of the table runs; any
\* statement that ran has committed.
CleanUp(fails) ==
    /\ connection = "open" /\ ~exc
    /\ \E r \in {execute_queries(schema, get_clean_up, fails)} :
          /\ schema' = r.schema
          /\ committed' = IF Table \in schema /\ Table \notin r.schema THEN << >>
                          ELSE IF r.failed = r.attempted THEN committed
                          ELSE Commit(Db).committed
          /\ pending' = IF r.failed = r.attempted THEN pending ELSE << >>
          /\ exc' = r.raised
          /\ last' = [op |-> "clean", kind |-> IF r.failed # {} THEN "Error" ELSE "ok",
                      n |-> Cardinality(AttemptedAfterFailure(r)),
                      flag |-> r.attempted = DOMAIN get_clean_up]
    /\ UNCHANGED <<use_indexer, chunk_size, dbFile, connection, mapper>>
    /\ UNCHANGED <<iterVars, queryVars, orphan>>

\* ------------------------------------------------------------- the store
Init ==
    /\ use_indexer \in {"build", "skip", "reuse"}
    /\ chunk_size \in 1..MaxChunk
    /\ dbFile = FALSE
    /\ schema = {}
    /\ connection = "absent"
    /\ committed = << >>
    /\ pending = << >>
    /\ mapper = NoMapper
    /\ exc = FALSE
    /\ last = NoCall
    /\ batches_count = -1
    /\ it = NoIter
    /\ yielded = NoneYielded
    /\ entities = NoEntities
    /\ orphan = FALSE

Next ==
    \/ Enter
    \/ Exit
    \/ Catch
    \/ \E values \in DirectValues : \E out \in Outcomes(values) :
          InsertValues(values, out)

\* The session scope and the bulk writer under any runtime.
NextScope ==
    \/ EnterAnyRuntime
    \/ Exit
    \/ Catch
    \/ Finalize
    \/ \E values \in DirectValues : \E out \in Outcomes(values) :
          InsertValues(values, out)

\* A store that is filled, counted, iterated and queried in any order: entered,
\* empty, with one triple to a chunk.
AppendBatches == { << t >> : t \in { <<0, 0, 1>>, <<7, 10, 8>> } }

InitAppend ==
    /\ use_indexer \in {"build", "skip"}
    /\ chunk_size = 1
    /\ dbFile = TRUE
    /\ schema = SchemaObjects
    /\ connection = "open"
    /\ committed = << >>
    /\ pending = << >>
    /\ mapper = NoMapper
    /\ exc = FALSE
    /\ last = NoCall
    /\ batches_count = -1
    /\ it = NoIter
    /\ yielded = NoneYielded
    /\ entities = NoEntities
    /\ orphan = FALSE

NextAppend ==
    \/ \E src \in Sources, label \in Labels :
          /\ Len(View) + Len(src) <= MaxAppendRows
          /\ \E errs \in SUBSET (1..NChunks(src, chunk_size)) :
                Populate(src, label, errs, 0, FALSE)
    \/ \E condition \in { c \in Conditions : ~c.malformed /\ c.label # "test" } :
          GetDataSize(Table, condition, FALSE)
    \/ \E label \in Labels : NewIter(label, 1, FALSE, "", FALSE)
    \/ NextPage
    \/ \E triples \in AppendBatches : GetComplementaryEntities(triples)

NextIngest ==
    \/ Enter
    \/ Exit
    \/ Catch
    \/ /\ connection = "open" /\ ~exc
       /\ \E src \in Sources, label \in Labels :
             \/ Populate(src, label, {}, 0, TRUE)
             \/ \E errs \in SUBSET (1..NChunks(src, chunk_size)), at \in 0..1 :
                   Populate(src, label, errs, at, FALSE)

\* A store that has been filled and entered: the rows a skip-mode populate
\* stores for two subjects and two labels.
IterRows == { <<0, 0, 1, "train">>, <<1, 0, 0, "train">>, <<0, 0, 0, "test">> }
IterTables == UNION { [1..n -> IterRows] : n \in 0..MaxIterRows }

InitIter ==
    /\ use_indexer = "skip"
    /\ chunk_size = 1
    /\ dbFile = TRUE
    /\ schema = SchemaObjects
    /\ connection = "open"
    /\ committed \in IterTables
    /\ pending = << >>
    /\ mapper = NoMapper
    /\ exc = FALSE
    /\ last = NoCall
    /\ batches_count = -1
    /\ it = NoIter
    /\ yielded = NoneYielded
    /\ entities = NoEntities
    /\ orphan = FALSE

NextIter ==
    \/ \E label \in Labels, batch_size \in 1..MaxBatch, a \in IterArgs :
          NewIter(label, batch_size, a.random, a.index_by, a.use_filter)
    \/ NextPage
    \/ Catch

\* A store that is filled further while its generators run.
GrowTables == { t \in IterTables : Len(t) < MaxRows }

InitGrow ==
    /\ use_indexer = "skip"
    /\ chunk_size = 1
    /\ dbFile = TRUE
    /\ schema = SchemaObjects
    /\ connection = "open"
    /\ committed \in GrowTables
    /\ pending = << >>
    /\ mapper = NoMapper
    /\ exc = FALSE
    /\ last = NoCall
    /\ batches_count = -1
    /\ it = NoIter
    /\ yielded = NoneYielded
    /\ entities = NoEntities
    /\ orphan = FALSE

NextGrow ==
    \/ \E label \in Labels, batch_size \in 1..MaxBatch, random \in BOOLEAN :
          NewIter(label, batch_size, random, "", FALSE)
    \/ NextPage
    \/ \E values \in DirectValues :
          InsertValues(values, [kind |-> "ok", at |-> Len(values)])

\* A store that has been filled and entered: rows over two predicates, among
\* them the three of the documented example.
QueryTriples == { <<1, 10, 2>>, <<3, 10, 2>>, <<1, 10, 4>>, <<3, 20, 4>>, <<1, 20, 3>> }
QueryTables ==
    UNION { [1..n -> { <<t[1], t[2], t[3], "train">> : t \in QueryTriples }] :
               n \in 0..MaxQueryRows }
Batches == UNION { [1..n -> QueryTriples] : n \in 1..MaxTriples }

InitQuery ==
    /\ use_indexer = "skip"
    /\ chunk_size = 1
    /\ dbFile = TRUE
    /\ schema = SchemaObjects
    /\ connection = "open"
    /\ committed \in QueryTables
    /\ pending = << >>
    /\ mapper = NoMapper
    /\ exc = FALSE
    /\ last = NoCall
    /\ batches_count = -1
    /\ it = NoIter
    /\ yielded = NoneYielded
    /\ entities = NoEntities
    /\ orphan = FALSE

NextQuery == \E triples \in Batches : GetComplementaryEntities(triples)

\* A store whose statements may fail: opened, cleaned, queried and filled.
NextExec ==
    \/ \E fails \in BackendFails(get_db_schema) : Open(fails, TRUE)
    \/ Exit
    \/ \E fails \in BackendFails(get_clean_up) : CleanUp(fails)
    \/ \E stmt \in Selects, backendFails \in BOOLEAN : ExecuteQuery(stmt, backendFails)
    \/ \E table \in {Table, "no_table"}, condition \in Conditions, backendFails \in BOOLEAN :
          GetDataSize(table, condition, backendFails)
    \/ \E values \in DirectValues :
          /\ Table \in schema
          /\ InsertValues(values, [kind |-> "ok", at |-> Len(values)])

vars == <<storeVars, iterVars, queryVars, handleVars>>

\* the session scope and the bulk writer
Spec == Init /\ [][Next]_vars

\* the session scope and the ingestion pipeline
SpecIngest == Init /\ [][NextIngest]_vars

\* batch iteration over a filled store
SpecIter == InitIter /\ [][NextIter]_vars

\* complementary-entity queries on a filled store
SpecQuery == InitQuery /\ [][NextQuery]_vars

\* ... of a store that grows while it is iterated
SpecGrow == InitGrow /\ [][NextGrow]_vars

\* the session scope, whatever the runtime does with a handle that is dropped
SpecScope == Init /\ [][NextScope]_vars

\* ingestion interleaved with counting, iteration and complementary queries
SpecAppend == InitAppend /\ [][NextAppend]_vars

\* ... and the store under failing statements
SpecExec == Init /\ [][NextExec]_vars

\* ------------------------------------------------------------- properties

\* C5: a populate call that builds the indexer and whose inserts all succeed
\* leaves in a partition that was empty rows which the indexer's inverse mapping
\* turns back into the source, row for row, whatever the chunk size.
C5_RoundTrip ==
    [][\A src \in Sources, label \in Labels :
          ( /\ use_indexer = "build" /\ ~mapper.has
            /\ get_data_size(View, label) = 0
            /\ Populate(src, label, {}, 0, FALSE) )
          => LET stored == SelectType(Numbered(View', 1), label)
             IN  [k \in 1..Len(stored) |-> Decode(mapper', stored[k].row)] = src]_vars

\* a build-mode populate of several chunks has ended without an error
C5_Witness ==
    /\ use_indexer = "build"
    /\ last.op = "populate" /\ last.kind = "ok" /\ last.flag /\ last.n >= 2
    /\ Len(committed) >= 2

\* C6: an insert that fails with a sqlite3.Error leaves the committed table as it
\* was and nothing of the chunk in the transaction; an insert that succeeds
\* leaves every row of the chunk committed.
C6_ChunkAtomic ==
    [][\A values \in DirectValues : \A out \in Outcomes(values) :
          InsertValues(values, out) =>
             /\ out.kind = "Error" => (committed' = committed /\ pending' = << >>)
             /\ out.kind = "ok" =>
                   /\ committed' = View \o [k \in 1..Len(values) |-> ColumnAffinity(values[k])]
                   /\ pending' = << >>]_vars

\* an insert has failed after writing some of its rows, on a table that has rows
C6_Witness ==
    /\ last.op = "insert" /\ last.kind = "Error" /\ last.n >= 1
    /\ committed # << >>

\* C9: once __exit__ has run the store's connection is not open.
C9_ReleasedOnExit == last.op = "exit" => connection # "open"

\* C10: leaving the scope of an open connection commits the outstanding rows
\* when no exception is propagating and discards them when one is; the rows
\* committed before stay as they are.
C10_CommitOrRollback ==
    [][(Exit /\ connection = "open") =>
          /\ pending' = << >>
          /\ committed' = IF exc THEN committed ELSE committed \o pending]_vars

\* the scope was left by an exception with rows outstanding and rows committed
C10_Witness ==
    /\ last.op = "exit" /\ last.kind = "error" /\ last.flag
    /\ committed # << >>

\* The rows that populate stores for one chunk.
StoredRows(m, mode, chunk, label) ==
    LET values == get_indexed_triples(m, mode, chunk, label)
    IN  [i \in 1..Len(values) |-> ColumnAffinity(values[i])]

\* C13: whenever populate may be called, and whichever chunks k, ... of the
\* source fail to insert (k the first of them), the call leaves the rows of the
\* chunks before k committed, in their order, after what the table held.
C13_PriorChunksStay ==
    (connection = "open" /\ ~exc) =>
       \A src \in Sources, label \in Labels, at \in 0..1 :
          Len(View) + Len(src) <= MaxRows =>
             \A k \in 1..NChunks(src, chunk_size) :
                \A errs \in { e \in SUBSET (k..NChunks(src, chunk_size)) : k \in e } :
                   \A r \in {populate(Db, mapper, use_indexer, chunk_size, src, label,
                                      PopulateOutcomes(loader(src, chunk_size), errs, at),
                                      FALSE)} :
                      ~r.raised =>
                         LET chunks == loader(src, chunk_size)
                             prior == Flatten([j \in 1..(k - 1) |->
                                          StoredRows(r.mapper, use_indexer, chunks[j], label)])
                         IN  /\ Len(r.db.committed) >= Len(View) + Len(prior)
                             /\ SubSeq(r.db.committed, 1, Len(View) + Len(prior))
                                   = View \o prior

\* the first populate of a source of two chunks with different identifiers has
\* stored its first chunk and failed on its second
C13_Witness ==
    /\ last.op = "populate" /\ last.kind = "Error" /\ last.flag /\ last.n = 2
    /\ Len(mapper.ent) = 3
    /\ Len(committed) = 1 /\ pending = << >>
    /\ <<committed[1][1], committed[1][2], committed[1][3]>> = <<0, 0, 1>>

\* C21: whenever populate may be called: a store that has a mapper keeps it and
\* translates the rows of the call with it; a store in reuse mode has the mapper
\* its caller supplied; a store in skip mode gets no mapper and stores the raw
\* values.
C21_IndexerStable ==
    (connection = "open" /\ ~exc) =>
       \A src \in Sources, label \in Labels :
          Len(View) + Len(src) <= MaxRows =>
             \A r \in {populate(Db, mapper, use_indexer, chunk_size, src, label,
                                PopulateOutcomes(loader(src, chunk_size), {}, 0), FALSE)} :
                LET chunks == loader(src, chunk_size)
                    added == SubSeq(r.db.committed, Len(View) + 1, Len(r.db.committed))
                IN  /\ mapper.has => r.mapper = mapper
                    /\ (mapper.has /\ ~r.raised) =>
                          added = Flatten([j \in 1..Len(chunks) |->
                                     StoredRows(mapper, use_indexer, chunks[j], label)])
                    /\ use_indexer = "reuse" => r.mapper = SuppliedMapper
                    /\ use_indexer = "skip" =>
                          /\ ~r.mapper.has
                          /\ added = [k \in 1..Len(src) |->
                                        <<src[k][1], src[k][2], src[k][3], label>>]

\* a store in build mode, indexed by an earlier call, has been populated again
\* and has two rows
C21_Witness ==
    /\ use_indexer = "build" /\ mapper.has
    /\ last.op = "populate" /\ last.kind = "ok" /\ ~last.flag
    /\ Len(committed) = 2

\* C22: no handle that the store opened is open without being referenced by the
\* store, so that at most one handle of the store is open.
C22_OneHandle == ~orphan

\* C23: __enter__ on a missing file creates the file and runs the schema, the
\* table first and then the six indexes, so that the file has the whole schema
\* when no statement failed; __enter__ on an existing file runs no statement and
\* leaves the schema and the stored rows as they are.
C23_SchemaOnCreate ==
    [][(last'.op = "enter") =>
          /\ committed' = committed
          /\ IF dbFile
             THEN schema' = schema /\ last'.kind = "ok" /\ last'.n = 0
             ELSE /\ dbFile'
                  /\ last'.kind = "ok" => schema' = SchemaObjects
                  /\ Table \notin schema' => Indexes \cap schema' = {}
                  /\ get_db_schema[1] = [verb |-> "create table", name |-> Table]
                  /\ { get_db_schema[k] : k \in 2..Len(get_db_schema) } =
                        { [verb |-> "create index", name |-> i] : i \in Indexes }
                  /\ Len(get_db_schema) = 7]_vars

\* an existing file that holds rows and lacks a part of the schema has been entered
C23_Witness ==
    /\ last.op = "enter" /\ last.kind = "ok"
    /\ committed # << >>
    /\ Table \in schema /\ schema # SchemaObjects

\* C24: whatever populate is called next, the rows of the table stay, in their
\* places and with their values, and every row the call adds carries the label of
\* the call; and no step of populate, get_data_size, _get_batch or the
\* complementary queries removes or changes a stored row.
C24_AppendOnly ==
    /\ [](\A src \in Sources, label \in Labels :
             Len(View) + Len(src) <= MaxAppendRows =>
                \A errs \in SUBSET (1..NChunks(src, chunk_size)) :
                   \A r \in {populate(Db, mapper, use_indexer, chunk_size, src, label,
                                      PopulateOutcomes(loader(src, chunk_size), errs, 0),
                                      FALSE)} :
                      LET after == r.db.committed \o r.db.pending
                      IN  /\ Len(after) >= Len(View)
                          /\ SubSeq(after, 1, Len(View)) = View
                          /\ \A k \in (Len(View) + 1)..Len(after) : after[k][4] = label)
    /\ [][/\ Len(committed') >= Len(committed)
          /\ SubSeq(committed', 1, Len(committed)) = committed]_vars

\* rows of both labels are stored, and the table has been iterated and queried
\* since the last of them was added
C24_Witness ==
    /\ Len(committed) = MaxAppendRows
    /\ { committed[k][4] : k \in 1..Len(committed) } = Labels
    /\ last.op = "populate"
    /\ yielded.n > 0
    /\ entities # NoEntities

\* C25: on an open store, whatever part of the schema is missing, none of the
\* statements of clean_up fails unless the backend fails it; after them the
\* table and every index are absent; and a second clean_up fails on nothing
\* and leaves the schema as the first one left it.
C25_CleanUpIdempotent ==
    (connection = "open" /\ ~exc) =>
       \A once \in {execute_queries(schema, get_clean_up, {})} :
          /\ once.failed = {} /\ ~once.raised
          /\ once.attempted = DOMAIN get_clean_up
          /\ once.schema \cap SchemaObjects = {}
          /\ \A twice \in {execute_queries(once.schema, get_clean_up, {})} :
                /\ twice.failed = {} /\ ~twice.raised
                /\ twice.schema = once.schema

\* a clean_up whose drop of the table the backend failed has left the table
\* without the indexes it dropped: the store the next clean_up runs on
C25_Witness ==
    /\ connection = "open" /\ ~exc
    /\ last.op = "clean" /\ last.kind = "Error" /\ last.flag
    /\ Table \in schema
    /\ "triples_table_po_idx" \notin schema

\* C17: a populate whose indexer fails to build ends with the exception and
\* leaves the table, the outstanding rows and the mapper as they were.
C17_IndexFailureAborts ==
    [][(last'.op = "populate" /\ last'.kind = "index") =>
       \A src \in Sources, label \in Labels :
          Populate(src, label, {}, 0, TRUE) =>
             /\ exc'
             /\ committed' = committed /\ pending' = pending
             /\ mapper' = mapper]_vars

\* a populate has ended in the failure of its indexer
C17_Witness ==
    /\ use_indexer = "build"
    /\ last.op = "populate" /\ last.kind = "index" /\ exc /\ ~mapper.has

\* C20: the first populate in build mode builds the indexer from the whole
\* source before it inserts (every identifier of every chunk is known to it)
\* and then inserts every chunk of the source.
C20_TwoPass ==
    [][(use_indexer = "build" /\ ~mapper.has /\ last'.op = "populate") =>
       \A src \in Sources, label \in Labels :
          Populate(src, label, {}, 0, FALSE) =>
             /\ ~exc'
             /\ \A k \in 1..Len(src) : Known(mapper', src[k])
             /\ Len(View') = Len(View) + Len(src)
             /\ pending' = << >>]_vars

\* a first populate in build mode has stored two chunks; the second chunk
\* brought an identifier that the first had not
C20_Witness ==
    /\ use_indexer = "build"
    /\ last.op = "populate" /\ last.kind = "ok" /\ last.flag /\ last.n = 2
    /\ Len(mapper.ent) = 3 /\ Len(committed) = 2

\* C12: an insert that fails, as one of rows with the wrong number of cells
\* does, leaves _insert_values_to_a_table as an exception for its caller.
C12_InsertFailureReported == (last.op = "insert" /\ last.kind = "Error") => exc

\* ------------------------------------------------------------- properties of statements
\* C11: a statement that fails in _execute_query leaves the call as an
\* exception, never as a normal return.
C11_FailureReported == (last.op = "query" /\ last.kind = "Error") => exc

\* C15: get_data_size raises on a malformed condition; it does not end as it
\* does for a table that is missing.
C15_MalformedRaises == (last.op = "size" /\ last.flag) => (last.kind = "ValueError" /\ exc)

\* C19: clean_up attempts every statement whatever fails, and a statement of
\* _create_database that fails ends the batch (nothing is attempted after it)
\* with an exception for the caller of __enter__.
C19_BatchIntent ==
    /\ last.op = "clean" => last.flag
    /\ (last.op = "enter" /\ last.kind = "Error") => (last.n = 0 /\ exc)

\* ------------------------------------------------------------- properties of iteration
PartitionSize == get_data_size(View, it.label)

\* C1: the first generator of a store, not random, yields pages of batch_size
\* rows each, and floor(N / batch_size) of them by the time it is exhausted.
C1_FullIteration ==
    (it.first /\ ~it.random) =>
        /\ yielded.n >= 1 => Len(yielded.page) = it.batch_size
        /\ it.state = "done" => yielded.n = PartitionSize \div it.batch_size

\* an exhausted iteration that left a remainder of the partition out
C1_Witness ==
    /\ it.first /\ ~it.random /\ it.state = "done"
    /\ yielded.n >= 1
    /\ PartitionSize % it.batch_size # 0

\* C2: in a non-random iteration (here: one without ORDER BY, whose order is the
\* rowid order) page i holds the rows at offsets [i * batch_size,
\* (i + 1) * batch_size) of the partition, and no row is yielded in two pages.
C2_PagesDisjoint ==
    (it.first /\ ~it.random /\ it.index_by = "" /\ yielded.n >= 1) =>
        /\ ~yielded.repeats
        /\ yielded.page = SubSeq(SelectType(Numbered(View, 1), it.label),
                                 (yielded.n - 1) * it.batch_size + 1,
                                 yielded.n * it.batch_size)

\* C3: every row a generator yields carries the label the generator was made for.
C3_PartitionIsolation ==
    \A k \in DOMAIN yielded.page : yielded.page[k].row[4] = it.label

\* a random page of "test" rows out of a table that holds "train" rows as well
C3_Witness ==
    /\ it.label = "test" /\ it.random /\ yielded.n >= 1 /\ yielded.page # << >>
    /\ \E k \in DOMAIN committed : committed[k][4] = "train"

\* C4: a generator made with index_by = "s" and random = False yields its pages
\* (it does not end by raising), and the subjects of the rows it yields, page
\* after page, never decrease.
C4_SubjectOrder ==
    (it.index_by = "s" /\ ~it.random) => (it.state # "dead" /\ yielded.ascending)

\* C8: a generator made with use_filter never ends by raising.
C8_FilterCompletes == it.use_filter => it.state # "dead"

C16_BoundedByFirstCount ==
    it.state \in {"running", "done"} => yielded.n <= it.n0 \div it.batch_size

\* C18: every generator that is exhausted has yielded floor(N / batch_size) pages
\* for its own partition and its own batch size, whichever generator of the
\* store was stepped first.
C18_OwnCount ==
    it.state = "done" => yielded.n = it.n0 \div it.batch_size

\* ------------------------------------------------------------- properties of the queries
\* C7: the objects are those of the table's rows that share subject and
\* predicate with one triple of the batch, the subjects those of the rows that
\* share predicate and object with one triple of the batch.
C7_ComplementaryEntities ==
    last.op = "entities" =>
        /\ entities.objects =
              { r[3] : r \in { x \in Range(View) :
                    \E t \in Range(entities.triples) : x[1] = t[1] /\ x[2] = t[2] } }
        /\ entities.subjects =
              { r[1] : r \in { x \in Range(View) :
                    \E t \in Range(entities.triples) : x[2] = t[2] /\ x[3] = t[3] } }

====
